---- MODULE Spec2Model ----
(***************************************************************************)
(* Model of ftrace.py: a function-trace symbolizer.  The script reads an   *)
(* indentation-encoded call trace, builds a forest of call sites and a     *)
(* per-module set of unique addresses, drops excluded modules, asks        *)
(* llvm-symbolizer once per module for (symbol, source line) pairs, and    *)
(* prints the symbolized tree.                                             *)
(*                                                                         *)
(* Strings are sequences of one-character strings, so that lstrip, strip,  *)
(* split and the regular-expression prefix match are computed, not assumed.*)
(* Cursors and list indexes are 0-based as in the source; element k of a   *)
(* Python list l is l[k + 1] here.                                         *)
(***************************************************************************)
EXTENDS Integers, Sequences, FiniteSets, TLC

(***************************************************************************)
(* Bounds of the explored inputs.                                          *)
(***************************************************************************)
\* longest trace (in lines) of the whole-pipeline specifications
MaxLines == 3
\* deepest nesting level of a trace line of the whole-pipeline specifications
MaxTraceDepth == 2
\* longest trace (in lines) of the parser specification
MaxParseLines == 3
\* widest indentation (in spaces) of a trace line of the parser specification
MaxIndent == 4
\* largest --depth value
MaxDepthArg == 2
\* longest symbolizer output (in lines) of the gateway specification
MaxOutLines == 7
\* most addresses of the module of the gateway specification
MaxAddrs == 2

VARIABLES
    input_lines,          \* the lines read from --input (ftrace.py:184)
    args_depth,           \* args.depth
    excluded_symbols,     \* compiled --exclude-symbol patterns
    excluded_modules,     \* compiled --exclude-module patterns
    pc,                   \* stage of the main block
    error,                \* the exception that ended the run, "" if none
    input_index,          \* parse_input_file's cursor
    parse_stack,          \* activation records of parse_call_site_tree
    call_sites,           \* heap of CallSite objects, in order of construction
    call_tree,            \* ParsedInputFile.call_tree (ids of the roots)
    addresses_by_module,  \* ParsedInputFile.addresses_by_module, in insertion order
    symbol_table,         \* ParsedInputFile.symbol_table
    module_index,         \* position of run_llvm_symbolizer's loop over the modules
    requests,             \* the llvm-symbolizer processes run so far
    print_stack,          \* activation records of print_call_tree
    printed               \* the tree lines written to standard output

vars == <<input_lines, args_depth, excluded_symbols, excluded_modules, pc, error,
          input_index, parse_stack, call_sites, call_tree, addresses_by_module,
          symbol_table, module_index, requests, print_stack, printed>>

(***************************************************************************)
(* Strings.                                                                *)
(***************************************************************************)
\* the characters str.strip() and str.lstrip() remove
Whitespace == {" ", "\n"}

RECURSIVE lstrip(_)
lstrip(s) ==
    IF s # <<>> /\ Head(s) \in Whitespace THEN lstrip(Tail(s)) ELSE s

RECURSIVE rstrip(_)
rstrip(s) ==
    IF s # <<>> /\ s[Len(s)] \in Whitespace THEN rstrip(SubSeq(s, 1, Len(s) - 1)) ELSE s

strip(s) == rstrip(lstrip(s))

\* str.strip(chars)
RECURSIVE strip_chars(_, _)
strip_chars(s, chars) ==
    IF s # <<>> /\ Head(s) \in chars THEN strip_chars(Tail(s), chars)
    ELSE IF s # <<>> /\ s[Len(s)] \in chars THEN strip_chars(SubSeq(s, 1, Len(s) - 1), chars)
    ELSE s

\* str.split(sep): the pieces between the separators, always at least one
RECURSIVE split_from(_, _, _, _)
split_from(s, sep, piece, pieces) ==
    IF s = <<>> THEN Append(pieces, piece)
    ELSE IF Head(s) = sep THEN split_from(Tail(s), sep, <<>>, Append(pieces, piece))
    ELSE split_from(Tail(s), sep, Append(piece, Head(s)), pieces)

split(s, sep) == split_from(s, sep, <<>>, <<>>)

\* str.split(sep, 1): at most one split, at the first separator
split_once(s, sep) ==
    IF \E k \in 1..Len(s) : s[k] = sep
    THEN LET k == CHOOSE j \in 1..Len(s) : s[j] = sep /\ \A i \in 1..(j - 1) : s[i] # sep
         IN <<SubSeq(s, 1, k - 1), SubSeq(s, k + 1, Len(s))>>
    ELSE <<s>>

\* sep.join(pieces)
RECURSIVE join(_, _)
join(pieces, sep) ==
    IF pieces = <<>> THEN <<>>
    ELSE IF Len(pieces) = 1 THEN pieces[1]
    ELSE pieces[1] \o <<sep>> \o join(Tail(pieces), sep)

\* re.compile(pattern).match(s) for a pattern without metacharacters: the
\* pattern is found at the start of s
pattern_match(pattern, s) ==
    Len(pattern) <= Len(s) /\ SubSeq(s, 1, Len(pattern)) = pattern

(***************************************************************************)
(* Line Decoder.                                                           *)
(***************************************************************************)
\* [ok |-> FALSE] stands for the ValueError of unpacking a one-element split
split_input_line(line) ==
    LET line_without_indentation == lstrip(line)
        indentation_count == Len(line) - Len(line_without_indentation)
        depth == 1 + (indentation_count \div 2)
        parts == split_once(line_without_indentation, " ")
    IN IF Len(parts) < 2
       THEN [ok |-> FALSE, depth |-> 0, addr |-> <<>>, module |-> <<>>]
       ELSE [ok |-> TRUE, depth |-> depth, addr |-> parts[1],
             module |-> strip_chars(strip(parts[2]), {"(", ")"})]

(***************************************************************************)
(* Filters.                                                                *)
(***************************************************************************)
\* is_excluded with a fault: the source line is not matched
is_excluded_symbol_only(symbol, source_line) ==
    \E k \in 1..Len(excluded_symbols) : pattern_match(excluded_symbols[k], symbol)

is_excluded(symbol, source_line) ==
    \E k \in 1..Len(excluded_symbols) :
        pattern_match(excluded_symbols[k], symbol)
        \/ pattern_match(excluded_symbols[k], source_line)

is_module_excluded(module) ==
    \E k \in 1..Len(excluded_modules) : pattern_match(excluded_modules[k], module)

(***************************************************************************)
(* Call Tree Builder.                                                      *)
(***************************************************************************)
\* CallSite.__init__
CallSite(depth, address, module) ==
    [depth |-> depth, address |-> [address |-> address, module |-> module],
     child_calls |-> <<>>]

\* addresses_by_module is a dict: a sequence of [module, addrs] in insertion order
HasModule(map, module) == \E k \in 1..Len(map) : map[k].module = module

\* update_global_address_map with a fault: the set of a known module is replaced
update_global_address_map_replacing(map, addr, module) ==
    LET with_key == IF HasModule(map, module) THEN map
                    ELSE Append(map, [module |-> module, addrs |-> {}])
    IN [k \in 1..Len(with_key) |->
          IF with_key[k].module = module
          THEN [with_key[k] EXCEPT !.addrs = {addr}]
          ELSE with_key[k]]

update_global_address_map(map, addr, module) ==
    LET with_key == IF HasModule(map, module) THEN map
                    ELSE Append(map, [module |-> module, addrs |-> {}])
    IN [k \in 1..Len(with_key) |->
          IF with_key[k].module = module
          THEN [with_key[k] EXCEPT !.addrs = @ \cup {addr}]
          ELSE with_key[k]]

\* the cursor of the running activation: parse_call_site_tree's if one is
\* active, parse_input_file's otherwise
Cursor ==
    IF parse_stack = <<>> THEN input_index ELSE parse_stack[Len(parse_stack)].input_index

AtLine == Cursor < Len(input_lines)

NextLine == split_input_line(input_lines[Cursor + 1])

\* the next line is parsed as a call site: at the top level always (:115), in
\* parse_call_site_tree when it is deeper than the current call site (:99, :103)
CanEnter ==
    /\ AtLine
    /\ NextLine.ok
    /\ parse_stack # <<>> =>
          NextLine.depth > call_sites[parse_stack[Len(parse_stack)].call_site].depth

\* parse_call_site_tree returns: the input is exhausted (:99, :110) or the next
\* line is not deeper than the current call site (:103-104)
CanReturn ==
    /\ parse_stack # <<>>
    /\ \/ ~AtLine
       \/ /\ AtLine
          /\ NextLine.ok
          /\ NextLine.depth <= call_sites[parse_stack[Len(parse_stack)].call_site].depth

\* parse_input_file leaves its loop (:115)
CanFinish == parse_stack = <<>> /\ ~AtLine

\* ftrace.py:93 and :102: a line without a separator cannot be decoded
DecodeFailure ==
    /\ pc = "parse"
    /\ AtLine
    /\ ~NextLine.ok
    /\ pc' = "failed"
    /\ error' = "FormatError"
    /\ UNCHANGED <<input_lines, args_depth, excluded_symbols, excluded_modules,
                   input_index, parse_stack, call_sites, call_tree,
                   addresses_by_module, symbol_table, module_index, requests,
                   print_stack, printed>>

\* ftrace.py:116 and :107 call parse_call_site_tree, whose lines 93-97 run here
EnterCallSite ==
    /\ pc = "parse"
    /\ CanEnter
    /\ addresses_by_module' =
          update_global_address_map(addresses_by_module, NextLine.addr, NextLine.module)
    /\ call_sites' = Append(call_sites, CallSite(NextLine.depth, NextLine.addr, NextLine.module))
    /\ parse_stack' = Append(parse_stack,
          [call_site |-> Len(call_sites) + 1, start |-> Cursor, input_index |-> Cursor + 1])
    /\ UNCHANGED <<input_lines, args_depth, excluded_symbols, excluded_modules, pc, error,
                   input_index, call_tree, symbol_table, module_index, requests,
                   print_stack, printed>>

\* ReturnCallSite with a fault: a child is put in front of its siblings
ReturnCallSite_prepending ==
    /\ pc = "parse"
    /\ CanReturn
    /\ LET frame == parse_stack[Len(parse_stack)]
           rest == SubSeq(parse_stack, 1, Len(parse_stack) - 1)
       IN IF rest = <<>>
          THEN /\ input_index' = frame.input_index
               /\ call_tree' = Append(call_tree, frame.call_site)
               /\ parse_stack' = rest
               /\ UNCHANGED call_sites
          ELSE /\ parse_stack' =
                     [rest EXCEPT ![Len(rest)].input_index = frame.input_index]
               /\ call_sites' =
                     [call_sites EXCEPT ![rest[Len(rest)].call_site].child_calls =
                         <<frame.call_site>> \o @]
               /\ UNCHANGED <<input_index, call_tree>>
    /\ UNCHANGED <<input_lines, args_depth, excluded_symbols, excluded_modules, pc, error,
                   addresses_by_module, symbol_table, module_index, requests,
                   print_stack, printed>>

\* ftrace.py:104 and :110 return (call_site, input_index); the caller stores the
\* cursor and appends the call site (:108 in a parent, :117 at the top level)
ReturnCallSite ==
    /\ pc = "parse"
    /\ CanReturn
    /\ LET frame == parse_stack[Len(parse_stack)]
           rest == SubSeq(parse_stack, 1, Len(parse_stack) - 1)
       IN IF rest = <<>>
          THEN /\ input_index' = frame.input_index
               /\ call_tree' = Append(call_tree, frame.call_site)
               /\ parse_stack' = rest
               /\ UNCHANGED call_sites
          ELSE /\ parse_stack' =
                     [rest EXCEPT ![Len(rest)].input_index = frame.input_index]
               /\ call_sites' =
                     [call_sites EXCEPT ![rest[Len(rest)].call_site].child_calls =
                         Append(@, frame.call_site)]
               /\ UNCHANGED <<input_index, call_tree>>
    /\ UNCHANGED <<input_lines, args_depth, excluded_symbols, excluded_modules, pc, error,
                   addresses_by_module, symbol_table, module_index, requests,
                   print_stack, printed>>

\* ftrace.py:115 leaves the loop, parse_input_file returns (:122)
FinishParse ==
    /\ pc = "parse"
    /\ CanFinish
    /\ pc' = "filter"
    /\ UNCHANGED <<input_lines, args_depth, excluded_symbols, excluded_modules, error,
                   input_index, parse_stack, call_sites, call_tree, addresses_by_module,
                   symbol_table, module_index, requests, print_stack, printed>>

(***************************************************************************)
(* Module Filter.                                                          *)
(***************************************************************************)
\* apply_module_filters with a fault: addresses_by_module is left as it is
apply_module_filters_roots_only ==
    /\ pc = "filter"
    /\ LET KeepRoot(x) == ~is_module_excluded(call_sites[x].address.module)
       IN call_tree' = SelectSeq(call_tree, KeepRoot)
    /\ pc' = "symbolize"
    /\ UNCHANGED <<input_lines, args_depth, excluded_symbols, excluded_modules, error,
                   input_index, parse_stack, call_sites, addresses_by_module, symbol_table,
                   module_index, requests, print_stack, printed>>

\* ftrace.py:124-126
apply_module_filters ==
    /\ pc = "filter"
    /\ LET KeepRoot(x) == ~is_module_excluded(call_sites[x].address.module)
           KeepItem(item) == ~is_module_excluded(item.module)
       IN /\ call_tree' = SelectSeq(call_tree, KeepRoot)
          /\ addresses_by_module' = SelectSeq(addresses_by_module, KeepItem)
    /\ pc' = "symbolize"
    /\ UNCHANGED <<input_lines, args_depth, excluded_symbols, excluded_modules, error,
                   input_index, parse_stack, call_sites, symbol_table, module_index,
                   requests, print_stack, printed>>

(***************************************************************************)
(* Symbolizer Gateway.                                                     *)
(***************************************************************************)
\* ftrace.py:55-61; returns end (start is returned unchanged and never used)
RECURSIVE get_output_line_range(_, _)
get_output_line_range(lines, start) ==
    IF start < Len(lines) /\ strip(lines[start + 1]) # <<>>
    THEN get_output_line_range(lines, start + 1)
    ELSE start

\* l[k] of a Python list: a negative k counts from the end, and k outside
\* -len(l) .. len(l) - 1 raises IndexError
InRange(l, k) == -Len(l) <= k /\ k < Len(l)

At(l, k) == IF k < 0 THEN l[Len(l) + k + 1] ELSE l[k + 1]

\* demultiplex with a fault: the scan resumes at the blank line, not after it
RECURSIVE demultiplex_resuming_at_end(_, _, _, _)
demultiplex_resuming_at_end(addrs, stdout_lines, output_index, table) ==
    IF addrs = <<>> THEN [ok |-> TRUE, symbol_table |-> table]
    ELSE LET end == get_output_line_range(stdout_lines, output_index)
         IN IF ~InRange(stdout_lines, end - 2) \/ ~InRange(stdout_lines, end - 1)
            THEN [ok |-> FALSE, symbol_table |-> table]
            ELSE demultiplex_resuming_at_end(Tail(addrs), stdout_lines, end,
                     (Head(addrs) :> <<At(stdout_lines, end - 2), At(stdout_lines, end - 1)>>)
                         @@ table)

\* ftrace.py:155-163, the loop over the addresses sent; ok is FALSE when
\* stdout_lines[end-2] or stdout_lines[end-1] raises IndexError
RECURSIVE demultiplex(_, _, _, _)
demultiplex(addrs, stdout_lines, output_index, table) ==
    IF addrs = <<>> THEN [ok |-> TRUE, symbol_table |-> table]
    ELSE LET end == get_output_line_range(stdout_lines, output_index)
         IN IF ~InRange(stdout_lines, end - 2) \/ ~InRange(stdout_lines, end - 1)
            THEN [ok |-> FALSE, symbol_table |-> table]
            ELSE demultiplex(Tail(addrs), stdout_lines, end + 1,
                     (Head(addrs) :> <<At(stdout_lines, end - 2), At(stdout_lines, end - 1)>>)
                         @@ table)

\* the orders in which a Python set of strings may be iterated
Orders(S) == {o \in [1..Cardinality(S) -> S] : \A i, j \in 1..Cardinality(S) : i # j => o[i] # o[j]}

\* ftrace.py:129-165, one pass of the loop over the modules: the process is
\* started (or cannot be), is given the addresses, and its output is taken
\* apart.  outcomes[n] is what the process may do when given n addresses.
run_llvm_symbolizer(outcomes) ==
    /\ pc = "symbolize"
    /\ module_index < Len(addresses_by_module)
    /\ LET item == addresses_by_module[module_index + 1]
       IN \E addrs \in Orders(item.addrs) : \E outcome \in outcomes[Len(addrs)] :
            IF ~outcome.launched
            THEN /\ pc' = "failed"
                 /\ error' = "ExternalProcessError"
                 /\ UNCHANGED <<symbol_table, module_index, requests>>
            ELSE LET stdout_lines == split(outcome.stdout_data, "\n")
                     result == demultiplex(addrs, stdout_lines, 0, <<>>)
                 IN /\ requests' = Append(requests,
                          [module |-> item.module, addrs |-> addrs,
                           llvm_symbolizer_input |-> join(addrs, "\n"),
                           stdout_data |-> outcome.stdout_data])
                    /\ IF result.ok
                       THEN /\ symbol_table' = (item.module :> result.symbol_table) @@ symbol_table
                            /\ module_index' = module_index + 1
                            /\ UNCHANGED <<pc, error>>
                       ELSE /\ pc' = "failed"
                            /\ error' = "UnderflowError"
                            /\ UNCHANGED <<symbol_table, module_index>>
    /\ UNCHANGED <<input_lines, args_depth, excluded_symbols, excluded_modules,
                   input_index, parse_stack, call_sites, call_tree, addresses_by_module,
                   print_stack, printed>>

\* ftrace.py:129 leaves the loop; the main block calls print_call_tree (:197)
finish_symbolizer ==
    /\ pc = "symbolize"
    /\ module_index = Len(addresses_by_module)
    /\ pc' = "print"
    /\ print_stack' = <<[call_tree |-> call_tree, next |-> 0]>>
    /\ UNCHANGED <<input_lines, args_depth, excluded_symbols, excluded_modules, error,
                   input_index, parse_stack, call_sites, call_tree, addresses_by_module,
                   symbol_table, module_index, requests, printed>>

(***************************************************************************)
(* Tree Renderer.                                                          *)
(***************************************************************************)
HasSymbol(module, address) ==
    module \in DOMAIN symbol_table /\ address \in DOMAIN symbol_table[module]

\* ftrace.py:168-178, one pass of the loop of the running print_call_tree
print_call_tree ==
    /\ pc = "print"
    /\ print_stack # <<>>
    /\ LET frame == print_stack[Len(print_stack)]
           rest == SubSeq(print_stack, 1, Len(print_stack) - 1)
       IN IF frame.next >= Len(frame.call_tree)
          THEN \* the loop is over: return to the caller
               /\ print_stack' = rest
               /\ pc' = IF rest = <<>> THEN "done" ELSE "print"
               /\ UNCHANGED <<error, printed>>
          ELSE LET id == frame.call_tree[frame.next + 1]
                   call_site == call_sites[id]
                   module == call_site.address.module
                   address == call_site.address.address
                   advanced == Append(rest, [frame EXCEPT !.next = @ + 1])
               IN IF ~HasSymbol(module, address)
                  THEN \* KeyError at :171
                       /\ pc' = "failed"
                       /\ error' = "LookupError"
                       /\ UNCHANGED <<print_stack, printed>>
                  ELSE LET symbol == symbol_table[module][address][1]
                           source_line == symbol_table[module][address][2]
                       IN IF is_excluded(symbol, source_line)
                          THEN /\ print_stack' = advanced
                               /\ UNCHANGED <<pc, error, printed>>
                          ELSE /\ printed' = Append(printed,
                                      [call_site |-> id,
                                       indent |-> (call_site.depth - 1) * 2,
                                       symbol |-> symbol, source_line |-> source_line])
                               /\ print_stack' =
                                      IF call_site.depth < args_depth \/ args_depth = 0
                                      THEN Append(advanced,
                                               [call_tree |-> call_site.child_calls, next |-> 0])
                                      ELSE advanced
                               /\ UNCHANGED <<pc, error>>
    /\ UNCHANGED <<input_lines, args_depth, excluded_symbols, excluded_modules,
                   input_index, parse_stack, call_sites, call_tree, addresses_by_module,
                   symbol_table, module_index, requests>>

(***************************************************************************)
(* Inputs of the parser specification.                                     *)
(***************************************************************************)
RECURSIVE Spaces(_)
Spaces(n) == IF n = 0 THEN <<>> ELSE <<" ">> \o Spaces(n - 1)

\* '<indentation><address> (<module>)\n'
TraceLine(indent, addr, module) ==
    Spaces(indent) \o addr \o <<" ", "(">> \o module \o <<")", "\n">>

\* a line without the separator
BadLine == <<"A", "\n">>

SeqsUpTo(S, n) == UNION {[1..k -> S] : k \in 0..n}

ParseBodies == {<<<<"A">>, <<"m">>>>, <<<<"B">>, <<"m">>>>, <<<<"A">>, <<"n">>>>}

ParseLines ==
    {TraceLine(i, b[1], b[2]) : i \in 0..MaxIndent, b \in ParseBodies} \cup {BadLine}

Start(lines, depth, symbols, modules) ==
    /\ input_lines = lines
    /\ args_depth = depth
    /\ excluded_symbols = symbols
    /\ excluded_modules = modules
    /\ pc = "parse"
    /\ error = ""
    /\ input_index = 0
    /\ parse_stack = <<>>
    /\ call_sites = <<>>
    /\ call_tree = <<>>
    /\ addresses_by_module = <<>>
    /\ symbol_table = <<>>
    /\ module_index = 0
    /\ requests = <<>>
    /\ print_stack = <<>>
    /\ printed = <<>>

ParseInit ==
    \E lines \in SeqsUpTo(ParseLines, MaxParseLines) : Start(lines, 0, <<>>, <<>>)

ParseNext == DecodeFailure \/ EnterCallSite \/ ReturnCallSite \/ FinishParse

ParseSpec == ParseInit /\ [][ParseNext]_vars

(***************************************************************************)
(* The whole run, on small traces over two modules.                        *)
(***************************************************************************)
Bodies == {<<<<"A">>, <<"m">>>>, <<<<"B">>, <<"n">>>>}

Lines ==
    {TraceLine(2 * (d - 1), b[1], b[2]) : d \in 1..MaxTraceDepth, b \in Bodies}
        \cup {BadLine}

\* (symbol, source line) pairs llvm-symbolizer answers with
SymbolPairs == {<<<<"f">>, <<"x">>>>, <<<<"g">>, <<"y">>>>}

\* the output for a sequence of pairs: symbol, source line and a blank line each
RECURSIVE Response(_)
Response(pairs) ==
    IF pairs = <<>> THEN <<>>
    ELSE Head(pairs)[1] \o <<"\n">> \o Head(pairs)[2] \o <<"\n", "\n">> \o Response(Tail(pairs))

\* the process cannot be started, answers every address, or dies without output
Outcomes ==
    [n \in 1..MaxLines |->
        {[launched |-> FALSE, stdout_data |-> <<>>]}
            \cup {[launched |-> TRUE, stdout_data |-> Response(pairs)] :
                     pairs \in [1..n -> SymbolPairs]}
            \cup {[launched |-> TRUE, stdout_data |-> <<>>]}]

SymbolPatterns == {<<>>, <<<<"f">>>>, <<<<"y">>>>}

ModulePatterns == {<<>>, <<<<"n">>>>}

Init ==
    \E lines \in SeqsUpTo(Lines, MaxLines), depth \in 0..MaxDepthArg,
       symbols \in SymbolPatterns, modules \in ModulePatterns :
        Start(lines, depth, symbols, modules)

Next ==
    \/ DecodeFailure
    \/ EnterCallSite
    \/ ReturnCallSite
    \/ FinishParse
    \/ apply_module_filters
    \/ run_llvm_symbolizer(Outcomes)
    \/ finish_symbolizer
    \/ print_call_tree

Spec == Init /\ [][Next]_vars

(***************************************************************************)
(* The Symbolizer Gateway, on any output of bounded length for one module. *)
(***************************************************************************)
AddressNames == <<"A", "B", "C", "D">>

\* the trace whose lines are n roots of module m, with n distinct addresses
RECURSIVE FlatTrace(_)
FlatTrace(n) ==
    IF n = 0 THEN <<>>
    ELSE Append(FlatTrace(n - 1), TraceLine(0, <<AddressNames[n]>>, <<"m">>))

\* the lines llvm-symbolizer may write: empty, blank, or text
OutLines == {<<>>, <<" ">>, <<"f">>, <<"g">>}

AnyOutcomes ==
    [n \in 1..MaxAddrs |->
        {[launched |-> TRUE, stdout_data |-> join(lines, "\n")] :
            lines \in UNION {[1..k -> OutLines] : k \in 1..MaxOutLines}}]

GatewayInit ==
    \E n \in 0..MaxAddrs, bad \in BOOLEAN :
        Start(FlatTrace(n) \o (IF bad THEN <<BadLine>> ELSE <<>>), 0, <<>>, <<>>)

GatewayNext ==
    \/ DecodeFailure
    \/ EnterCallSite
    \/ ReturnCallSite
    \/ FinishParse
    \/ apply_module_filters
    \/ run_llvm_symbolizer(AnyOutcomes)

GatewaySpec == GatewayInit /\ [][GatewayNext]_vars

(***************************************************************************)
(* Vocabulary of the properties.                                           *)
(***************************************************************************)
Range(s) == {s[k] : k \in DOMAIN s}

\* parent before children, left to right
RECURSIVE Preorder(_)
Preorder(ids) ==
    IF ids = <<>> THEN <<>>
    ELSE <<Head(ids)>> \o Preorder(call_sites[Head(ids)].child_calls) \o Preorder(Tail(ids))

Descendants(id) == Range(Preorder(call_sites[id].child_calls))

Decoded == [k \in 1..Len(input_lines) |-> split_input_line(input_lines[k])]

AllDecodable == \A k \in 1..Len(input_lines) : Decoded[k].ok

Triple(id) ==
    <<call_sites[id].depth, call_sites[id].address.address, call_sites[id].address.module>>

ParseDone == pc = "filter"

(***************************************************************************)
(* Call Tree Builder: properties.                                          *)
(***************************************************************************)
\* C7: all children of the same call site have the same depth.
C7_SiblingsShareDepth ==
    \A id \in 1..Len(call_sites) :
        \A i, j \in 1..Len(call_sites[id].child_calls) :
            call_sites[call_sites[id].child_calls[i]].depth
                = call_sites[call_sites[id].child_calls[j]].depth

\* the (module, address) pairs of the call sites of the forest
ForestPairs ==
    {<<call_sites[id].address.module, call_sites[id].address.address>> :
        id \in Range(Preorder(call_tree))}

\* the (module, address) pairs held by addresses_by_module
MapPairs ==
    UNION {{<<addresses_by_module[k].module, a>> : a \in addresses_by_module[k].addrs} :
              k \in 1..Len(addresses_by_module)}

\* C9: once parse_input_file has returned, the (module, address) pairs of the
\* call sites of the forest are exactly the pairs held by addresses_by_module,
\* and no module has two entries in the map.
C9_AddressMapComplete ==
    ParseDone =>
        /\ ForestPairs = MapPairs
        /\ \A i, j \in 1..Len(addresses_by_module) :
              addresses_by_module[i].module = addresses_by_module[j].module => i = j

\* C9 witness: a parsed trace that repeats an address of a module and uses one
\* address in two modules.
C9_Witness ==
    /\ ParseDone
    /\ Len(call_sites) = 3
    /\ Cardinality(MapPairs) = 2
    /\ Len(addresses_by_module) = 2
    /\ addresses_by_module[1].addrs = addresses_by_module[2].addrs

\* C10: parse_input_file terminates with the cursor at the number of lines
\* (each call of parse_call_site_tree constructs one call site and moves the
\* cursor on by one line, so there are at most as many calls as lines, and on
\* decodable input the parser is never stuck and never fails); every line has
\* become exactly one call site, and the pre-order traversal of the forest
\* lists the decoded (depth, address, module) triples in input order; every
\* activation of parse_call_site_tree has a cursor beyond the one it was given.
C10_ParseInOrder ==
    /\ pc = "parse" =>
          /\ Cursor <= Len(input_lines)
          /\ Len(call_sites) = Cursor
          /\ Len(parse_stack) <= Len(call_sites)
    /\ \A k \in 1..Len(parse_stack) : parse_stack[k].start < parse_stack[k].input_index
    /\ (pc = "parse" /\ AllDecodable) => (CanEnter \/ CanReturn \/ CanFinish)
    /\ AllDecodable => pc # "failed"
    /\ ParseDone =>
          /\ input_index = Len(input_lines)
          /\ Len(call_sites) = Len(input_lines)
          /\ Preorder(call_tree) = [k \in 1..Len(input_lines) |-> k]
          /\ \A k \in 1..Len(input_lines) :
                Triple(k) = <<Decoded[k].depth, Decoded[k].addr, Decoded[k].module>>

\* C10 witness: a parsed trace of three lines in which a call site has two children.
C10_Witness ==
    /\ ParseDone
    /\ Len(input_lines) = 3
    /\ \E id \in 1..Len(call_sites) : Len(call_sites[id].child_calls) = 2

(***************************************************************************)
(* Symbolizer Gateway: properties.                                         *)
(***************************************************************************)
IsBlank(line) == \A k \in 1..Len(line) : line[k] \in Whitespace

\* the positions of the blank lines of an output, in increasing order
RECURSIVE Ascending(_)
Ascending(S) ==
    IF S = {} THEN <<>>
    ELSE LET least == CHOOSE x \in S : \A y \in S : x <= y
         IN <<least>> \o Ascending(S \ {least})

BlankPositions(lines) == Ascending({k \in 1..Len(lines) : IsBlank(lines[k])})

\* every blank-line-terminated segment ends at a blank line of its own, so an
\* output has at most as many segments as blank lines
FewerSegmentsThan(lines, n) == Len(BlankPositions(lines)) < n

\* C1: when the output for a module has fewer blank-line-terminated segments
\* than addresses were sent, the run fails with UnderflowError and no symbol
\* table is recorded for the module.
C1_UnderflowDetected ==
    \A k \in 1..Len(requests) :
        FewerSegmentsThan(split(requests[k].stdout_data, "\n"), Len(requests[k].addrs)) =>
            /\ pc = "failed"
            /\ error = "UnderflowError"
            /\ requests[k].module \notin DOMAIN symbol_table

\* the output is exactly n segments of at least two non-blank lines, each
\* followed by its blank line; what split leaves after the last newline is empty
ExactlySegments(lines, n) ==
    LET blank == BlankPositions(lines)
    IN /\ Len(blank) = n + 1
       /\ blank[n + 1] = Len(lines)
       /\ lines[Len(lines)] = <<>>
       /\ n >= 1 => blank[n] = Len(lines) - 1
       /\ \A i \in 1..n : blank[i] - (IF i = 1 THEN 0 ELSE blank[i - 1]) >= 3

\* C6: from an output of exactly N segments for the N addresses sent, each of
\* at least two lines and ended by a blank line, the gateway records exactly N
\* entries for the module, the i-th address sent mapped to the last two lines
\* of the i-th segment.
C6_Aligned ==
    \A k \in 1..Len(requests) :
        LET lines == split(requests[k].stdout_data, "\n")
            addrs == requests[k].addrs
            blank == BlankPositions(lines)
        IN ExactlySegments(lines, Len(addrs)) =>
              /\ pc # "failed"
              /\ requests[k].module \in DOMAIN symbol_table
              /\ DOMAIN symbol_table[requests[k].module] = Range(addrs)
              /\ Cardinality(DOMAIN symbol_table[requests[k].module]) = Len(addrs)
              /\ \A i \in 1..Len(addrs) :
                    symbol_table[requests[k].module][addrs[i]]
                        = <<lines[blank[i] - 2], lines[blank[i] - 1]>>

\* C6 witness: two addresses answered by two segments whose last two lines
\* differ from each other and from segment to segment.
C6_Witness ==
    /\ Len(requests) = 1
    /\ Len(requests[1].addrs) = 2
    /\ ExactlySegments(split(requests[1].stdout_data, "\n"), 2)
    /\ LET table == symbol_table[requests[1].module]
       IN /\ table[requests[1].addrs[1]] = <<<<"f">>, <<"g">>>>
          /\ table[requests[1].addrs[2]] = <<<<"g">>, <<"f">>>>

(***************************************************************************)
(* Module Filter, Symbolizer Gateway and Tree Renderer: properties of the  *)
(* whole run.                                                              *)
(***************************************************************************)
\* run_llvm_symbolizer has returned
Symbolized == pc \in {"print", "done"} \/ (pc = "failed" /\ error = "LookupError")

\* C2: once apply_module_filters and run_llvm_symbolizer have returned, every
\* call site still in the forest, at any depth, has its symbol_table entry.
C2_EverySiteHasSymbol ==
    Symbolized =>
        \A id \in Range(Preorder(call_tree)) :
            HasSymbol(call_sites[id].address.module, call_sites[id].address.address)

\* C3: when the run has failed, no line of the tree has been printed.
C3_NoPartialTree == pc = "failed" => printed = <<>>

\* C4: with a limit depth > 0 no printed call site is deeper than the limit;
\* with depth = 1 every printed line is a root printed without indentation.
C4_DepthLimit ==
    args_depth > 0 =>
        \A k \in 1..Len(printed) :
            /\ call_sites[printed[k].call_site].depth <= args_depth
            /\ args_depth = 1 =>
                  /\ printed[k].indent = 0
                  /\ printed[k].call_site \in Range(call_tree)

\* some --exclude-symbol pattern matches the symbol or the source line
SomePatternMatches(symbol, source_line) ==
    \E k \in 1..Len(excluded_symbols) :
        \/ Len(excluded_symbols[k]) <= Len(symbol)
           /\ \A i \in 1..Len(excluded_symbols[k]) : symbol[i] = excluded_symbols[k][i]
        \/ Len(excluded_symbols[k]) <= Len(source_line)
           /\ \A i \in 1..Len(excluded_symbols[k]) : source_line[i] = excluded_symbols[k][i]

\* the call site has a symbol_table entry that some pattern matches
Suppressed(id) ==
    /\ HasSymbol(call_sites[id].address.module, call_sites[id].address.address)
    /\ LET entry == symbol_table[call_sites[id].address.module][call_sites[id].address.address]
       IN SomePatternMatches(entry[1], entry[2])

PrintedSites == {printed[k].call_site : k \in 1..Len(printed)}

\* the lists print_call_tree is called on: the roots, and the children of a
\* printed call site within the depth limit
Visited(list) ==
    \/ list = call_tree
    \/ \E id \in PrintedSites :
          /\ list = call_sites[id].child_calls
          /\ call_sites[id].depth < args_depth \/ args_depth = 0

\* C5: a call site whose symbol or source line matches an exclusion pattern is
\* not printed, nor is any of its descendants, whether or not they match; and
\* when the tree has been printed, the call sites that follow a matching one in
\* its list have been visited: those that match no pattern are printed.
C5_SubtreeSuppressed ==
    pc \in {"print", "done", "failed"} =>
        /\ \A id \in Range(Preorder(call_tree)) :
              Suppressed(id) => PrintedSites \cap ({id} \cup Descendants(id)) = {}
        /\ pc = "done" =>
              \A id \in 1..Len(call_sites) :
                  \A list \in {call_tree, call_sites[id].child_calls} :
                      Visited(list) =>
                          \A i, j \in 1..Len(list) :
                              (i < j /\ Suppressed(list[i]) /\ ~Suppressed(list[j]))
                                  => list[j] \in PrintedSites

\* C5 witness: the tree has been printed; a root matched a pattern, its child
\* matched none and is not printed, and the root after it is printed.
C5_Witness ==
    /\ pc = "done"
    /\ Len(call_tree) = 2
    /\ Suppressed(call_tree[1])
    /\ Len(call_sites[call_tree[1]].child_calls) = 1
    /\ ~Suppressed(call_sites[call_tree[1]].child_calls[1])
    /\ PrintedSites = {call_tree[2]}

\* the modules llvm-symbolizer has been run for
RequestedModules == [k \in 1..Len(requests) |-> requests[k].module]

\* the call sites that are no child of another, in order of construction
RootIds ==
    SelectSeq([k \in 1..Len(call_sites) |-> k],
              LAMBDA id : \A p \in 1..Len(call_sites) : id \notin Range(call_sites[p].child_calls))

ModuleMatches(module) ==
    \E k \in 1..Len(excluded_modules) :
        /\ Len(excluded_modules[k]) <= Len(module)
        /\ \A i \in 1..Len(excluded_modules[k]) : module[i] = excluded_modules[k][i]

\* C8: llvm-symbolizer is never run for a module that matches an exclusion
\* pattern and never twice for a module; once run_llvm_symbolizer has returned
\* it has been run for exactly the modules of the trace that match no pattern;
\* after apply_module_filters the forest holds the roots whose module matches
\* no pattern, and addresses_by_module no module that matches one.
C8_OncePerKeptModule ==
    /\ \A k \in 1..Len(requests) : ~ModuleMatches(requests[k].module)
    /\ \A i, j \in 1..Len(requests) : requests[i].module = requests[j].module => i = j
    /\ Symbolized =>
          Range(RequestedModules)
              = {m \in {Decoded[k].module : k \in 1..Len(input_lines)} : ~ModuleMatches(m)}
    /\ pc \in {"symbolize", "print", "done"} =>
          /\ call_tree = SelectSeq(RootIds, LAMBDA id : ~ModuleMatches(call_sites[id].address.module))
          /\ \A k \in 1..Len(addresses_by_module) : ~ModuleMatches(addresses_by_module[k].module)

\* C8 witness: a trace over two modules, one of them excluded: a root was
\* removed and llvm-symbolizer was run once, for the other module.
C8_Witness ==
    /\ pc = "done"
    /\ excluded_modules # <<>>
    /\ Len(call_tree) < Len(RootIds)
    /\ Len(requests) = 1
    /\ Cardinality({Decoded[k].module : k \in 1..Len(input_lines)}) = 2

====
